---- MODULE Spec2Model ----
(***************************************************************************)
(* Model of the resumable two-pass chapter pipeline of ai-novel-translation *)
(* (src/src/main.rs, src/src/llm.rs): the glossary store, process_chapter,  *)
(* the resume scan and the processing loop of main, run repeatedly over one *)
(* file system.                                                             *)
(***************************************************************************)
EXTENDS Integers, Sequences, FiniteSets, TLC

\* ------------------------------------------------------------------ bounds
\* Number of runs of the program over the same folders.
MaxRuns == 2
\* Longest chapter list.
MaxChapters == 3

\* ------------------------------------------------------------ input files
\* An input file found by WalkDir: its path below the input folder, its
\* file_name() and its file_stem().
InputFile(path, name, stem) == [path |-> path, name |-> name, stem |-> stem]

a_md == InputFile("a.md", "a.md", "a")
a_txt == InputFile("a.txt", "a.txt", "a")
b_txt == InputFile("b.txt", "b.txt", "b")
c_txt == InputFile("c.txt", "c.txt", "c")
d_c_txt == InputFile("d/c.txt", "c.txt", "c")

\* Input folders, each as files.sort() orders it (PathBuf order: a.md <
\* a.txt < b.txt < c.txt < d/c.txt): chapters with distinct names and stems,
\* two files of one stem (a.md, a.txt), and two files of one name in different
\* subfolders (c.txt, d/c.txt), which WalkDir descends into.
SampleLists ==
    { << >>,
      << a_txt >>,
      << a_txt, b_txt >>,
      << a_txt, b_txt, c_txt >>,
      << a_md, a_txt >>,
      << c_txt, d_c_txt >>,
      << a_txt, b_txt, c_txt, d_c_txt >> }

\* Every chapter list considered.
ChapterLists == { l \in SampleLists : Len(l) <= MaxChapters }

Names == { "a.md", "a.txt", "b.txt", "c.txt" }
Stems == { "a", "b", "c" }

\* ---------------------------------------------------------------- glossary
Keys == {"k1", "k2"}
Vals == {"v1", "v2"}

EmptyTerms == [k \in {} |-> "v1"]

\* ChapterGlossary::default()
DefaultGlossary == [chapter_name |-> "", summary |-> "", terms |-> EmptyTerms]

ChapterGlossary(name, summary, terms) ==
    [chapter_name |-> name, summary |-> summary, terms |-> terms]

\* Option<ChapterGlossary>
None == [some |-> FALSE, val |-> DefaultGlossary]
Some(g) == [some |-> TRUE, val |-> g]

\* HashMap::insert
Insert(m, k, v) == [x \in (DOMAIN m) \cup {k} |-> IF x = k THEN v ELSE m[x]]

\* ------------------------------------------------------------- JSON tokens
\* A JSON text is modelled as the sequence of its tokens; every token has the
\* same shape so that file contents can be compared.
Tok(t, k, v) == [t |-> t, k |-> k, v |-> v]
TOpen == Tok("{", "", "")
TClose == Tok("}", "", "")
TField(k, v) == Tok("field", k, v)
TTerm(k, v) == Tok("term", k, v)
\* "new_glossary": { ... } : the marker is followed by the entries
TNewGlossary == Tok("field", "new_glossary", "")
TWs == Tok("ws", "", "")
\* the code-fence markers "```json" and "```"
TFenceJson == Tok("fence_json", "", "")
TFence == Tok("fence", "", "")
TText == Tok("text", "", "")

\* A file: absent, or present with the tokens written so far.
NoFile == [exists |-> FALSE, data |-> << >>]
File(data) == [exists |-> TRUE, data |-> data]

\* The orders in which a HashMap with the keys D may be iterated.
Orders(D) ==
    { s \in [1..Cardinality(D) -> D] : \A i, j \in 1..Cardinality(D) : s[i] = s[j] => i = j }

\* The order in which a HashMap with the keys D is iterated.  The order is
\* unspecified; one order is taken, and Decode does not depend on it.
IterOrder(D) == CHOOSE s \in Orders(D) : TRUE

\* serde_json::to_writer_pretty of a ChapterGlossary: the fields in the order
\* of the struct, the terms in the map's iteration order ord.
Encode(g, ord) ==
    << TOpen, TField("chapter_name", g.chapter_name), TField("summary", g.summary) >>
    \o [i \in 1..Len(ord) |-> TTerm(ord[i], g.terms[ord[i]])]
    \o << TClose >>

RECURSIVE TermsOf(_, _)
\* The map read from the term tokens of data up to position i; a later
\* entry for a key replaces an earlier one.
TermsOf(data, i) ==
    IF i < 1 THEN EmptyTerms
    ELSE IF data[i].t = "term" THEN
        Insert(TermsOf(data, i - 1), data[i].k, data[i].v)
    ELSE TermsOf(data, i - 1)

\* serde_json::from_reader::<ChapterGlossary>: a complete object with the
\* three fields decodes; anything else (empty, truncated, trailing tokens) is
\* an error.
WellFormed(data) ==
    /\ Len(data) >= 4
    /\ data[1] = TOpen
    /\ data[Len(data)] = TClose
    /\ data[2].t = "field" /\ data[2].k = "chapter_name"
    /\ data[3].t = "field" /\ data[3].k = "summary"
    /\ \A i \in 4..(Len(data) - 1) : data[i].t = "term"

Decode(data) ==
    IF WellFormed(data)
    THEN Some(ChapterGlossary(data[2].v, data[3].v, TermsOf(data, Len(data) - 1)))
    ELSE None

\* ------------------------------------------------------- Pass 1 response
RECURSIVE TrimStartMatches(_, _)
\* str::trim_start_matches(pat): removes every leading repetition of pat.
TrimStartMatches(s, pat) ==
    IF Len(s) > 0 /\ Head(s) = pat THEN TrimStartMatches(Tail(s), pat) ELSE s

RECURSIVE TrimEndMatches(_, _)
\* str::trim_end_matches(pat)
TrimEndMatches(s, pat) ==
    IF Len(s) > 0 /\ s[Len(s)] = pat
    THEN TrimEndMatches(SubSeq(s, 1, Len(s) - 1), pat)
    ELSE s

\* str::trim(): leading and trailing whitespace removed
Trim(s) == TrimEndMatches(TrimStartMatches(s, TWs), TWs)

\* clean_json of process_chapter
CleanJson(raw_resp) ==
    TrimEndMatches(
        TrimStartMatches(TrimStartMatches(Trim(raw_resp), TFenceJson), TFence),
        TFence)

\* serde_json::from_str::<AnalysisResponse>: white space around the value is
\* skipped; the value must be one object holding `summary` and `new_glossary`
\* once each, the entries of new_glossary following its marker.
AnalysisWellFormed(d) ==
    /\ Len(d) >= 4
    /\ d[1] = TOpen
    /\ d[Len(d)] = TClose
    /\ \A i \in 2..(Len(d) - 1) : d[i].t \in {"field", "term"}
    /\ Cardinality({ i \in 2..(Len(d) - 1) : d[i].t = "field" /\ d[i].k = "summary" }) = 1
    /\ Cardinality({ i \in 2..(Len(d) - 1) : d[i] = TNewGlossary }) = 1
    /\ \A i \in 2..(Len(d) - 1) :
          d[i].t = "field" => d[i].k \in {"summary", "new_glossary"}
    /\ \A i \in 2..(Len(d) - 1) :
          d[i].t = "term" => (d[i - 1].t = "term" \/ d[i - 1] = TNewGlossary)

ParseAnalysis(clean_json) ==
    LET d == Trim(clean_json)
    IN  IF AnalysisWellFormed(d)
        THEN [ok |-> TRUE,
              summary |-> (CHOOSE v \in {"s1", "s2"} :
                              \E i \in 2..(Len(d) - 1) : d[i] = TField("summary", v)),
              new_glossary |-> TermsOf(d, Len(d) - 1)]
        ELSE [ok |-> FALSE, summary |-> "", new_glossary |-> EmptyTerms]

\* What the analysis call of the backend may answer.
AnalysisResponses ==
    { << TOpen, TField("summary", "s1"), TNewGlossary, TTerm("k1", "v1"), TClose >>,
      << TFenceJson, TWs, TOpen, TField("summary", "s2"), TNewGlossary,
         TTerm("k1", "v2"), TTerm("k2", "v1"), TClose, TWs, TFence, TWs >>,
      << TOpen, TNewGlossary, TTerm("k2", "v2"), TClose >>,
      << TOpen, TField("summary", "s1"), TClose >>,
      << TText, TOpen, TField("summary", "s1"), TNewGlossary, TClose >> }

\* What the translation call may answer: a text holding the two characters
\* backslash and n.
TranslationResponses == { << "x", "\\n", "y" >> }

\* translated_text.replace("\\n", "\n")
Unescape(text) == [i \in 1..Len(text) |-> IF text[i] = "\\n" THEN "\n" ELSE text[i]]

\* ----------------------------------------------------------- merge (Pass 1)
RECURSIVE ExtendSeq(_, _, _)
\* HashMap::extend: the entries of r, in the order ord, inserted one by one.
ExtendSeq(m, r, ord) ==
    IF Len(ord) = 0 THEN m
    ELSE ExtendSeq(Insert(m, Head(ord), r[Head(ord)]), r, Tail(ord))

\* Mutation: the previous terms are dropped, only the new entries are kept.
MergeTermsDropPrior(prior, new_glossary) == new_glossary

\* Mutation: an entry already in the previous terms keeps its old value.
MergeTermsKeepOld(prior, new_glossary) ==
    [k \in (DOMAIN prior) \cup (DOMAIN new_glossary) |->
        IF k \in DOMAIN prior THEN prior[k] ELSE new_glossary[k]]

\* current_terms = previous_glossary.terms.clone(); current_terms.extend(new_glossary)
MergeTerms(prior, new_glossary) ==
    ExtendSeq(prior, new_glossary, IterOrder(DOMAIN new_glossary))

\* -------------------------------------------------------------- the state
VARIABLES
    files,            \* the sorted chapter list (Vec<PathBuf>)
    inputDir,         \* config.translation.input_folder exists
    glossDir,         \* config.translation.glossary_folder exists
    outDir,           \* config.translation.output_folder exists
    gloss,            \* glossary folder: stem -> file "<stem>.json"
    out,              \* output folder: file name -> file
    pc,               \* position of the running program
    run,              \* number of runs started
    unattended,       \* config.runtime.unattended_mode of this run
    suggested_index,
    start_index,
    idx,              \* index of the chapter the loop is at
    current_glossary,
    raw_resp,
    current_chapter_data,
    wbuf,             \* tokens save_glossary has still to write
    translated_text,
    calls,            \* the backend calls of this run, in order
    exit,             \* how and where this run ended
    gloss0,           \* the glossary folder when process_chapter was entered
    out0,             \* the output folder when process_chapter was entered
    touched,          \* the files this run has created or truncated
    seed,             \* where the initial glossary of this run came from
    prev              \* the chapter the previous run stopped in with its
                      \* snapshot saved and its output not yet written, or -1

vars ==
    << files, inputDir, glossDir, outDir, gloss, out, pc, run, unattended,
       suggested_index, start_index, idx, current_glossary, raw_resp,
       current_chapter_data, wbuf, translated_text, calls, exit, gloss0, out0, touched,
       seed, prev >>

fsVars == << files, inputDir, glossDir, outDir, gloss, out >>
localVars == << raw_resp, current_chapter_data, wbuf, translated_text >>
snapVars == << gloss0, out0, touched >>
runVars == << run, unattended, prev >>
driverVars == << suggested_index, start_index, current_glossary, seed >>

\* No file is created or truncated yet by this run.
NoneTouched == [gloss |-> {}, out |-> {}]

Running == [kind |-> "running", at |-> "", idx |-> 0]
\* The run has ended: how, at which step, and at which chapter index.
Exit(kind, at) == [kind |-> kind, at |-> at, idx |-> idx]
NoSeed == [from |-> "none", key |-> ""]

\* The chapter at 0-based index i.
Chapter(i) == files[i + 1]

Init ==
    /\ files \in ChapterLists
    /\ inputDir \in BOOLEAN
    /\ (~inputDir => files = << >>)
    /\ glossDir = FALSE
    /\ outDir = FALSE
    /\ gloss = [s \in Stems |-> NoFile]
    /\ out = [n \in Names |-> NoFile]
    /\ pc = "idle"
    /\ run = 0
    /\ unattended = FALSE
    /\ suggested_index = 0
    /\ start_index = 0
    /\ idx = 0
    /\ current_glossary = DefaultGlossary
    /\ raw_resp = << >>
    /\ current_chapter_data = DefaultGlossary
    /\ wbuf = << >>
    /\ translated_text = << >>
    /\ calls = << >>
    /\ exit = Running
    /\ gloss0 = gloss
    /\ out0 = out
    /\ touched = NoneTouched
    /\ seed = NoSeed
    /\ prev = -1

\* ------------------------------------------------------------ llm factory
LlmConfigs ==
    [provider : {"gemini", "ollama", "openai"}, gemini : BOOLEAN, ollama : BOOLEAN]

\* Mutation: a provider that is not known gets the gemini client, and a
\* missing block is not looked at.
CreateLlmClientLenient(config) ==
    IF config.provider = "ollama" THEN "ollama" ELSE "gemini"

\* create_llm_client: the provider's name selects the client; its block must
\* be present.
CreateLlmClient(config) ==
    CASE config.provider = "gemini" -> IF config.gemini THEN "gemini" ELSE "err"
      [] config.provider = "ollama" -> IF config.ollama THEN "ollama" ELSE "err"
      [] OTHER -> "err"

\* The run has ended, by an error or by the death of the process, after
\* save_glossary returned and before the output was written.
StoppedBetweenPasses ==
    /\ pc = "done"
    /\ exit.kind \in {"failed", "died"}
    /\ exit.at \in {"pass2", "out_dir", "out_create", "out_write"}

\* main, 1.: the configuration is read and the client is created.
StartRunWith(config, un) ==
    /\ pc \in {"idle", "done"}
    /\ run < MaxRuns
    /\ run' = run + 1
    /\ prev' = IF StoppedBetweenPasses THEN idx ELSE -1
    /\ unattended' = un
    /\ IF CreateLlmClient(config) = "err"
       THEN pc' = "done" /\ exit' = Exit("config", "create_llm_client")
       ELSE pc' = "enumerate" /\ exit' = Running
    /\ suggested_index' = 0
    /\ start_index' = 0
    /\ idx' = 0
    /\ current_glossary' = DefaultGlossary
    /\ raw_resp' = << >>
    /\ current_chapter_data' = DefaultGlossary
    /\ wbuf' = << >>
    /\ translated_text' = << >>
    /\ calls' = << >>
    /\ gloss0' = gloss
    /\ out0' = out
    /\ touched' = NoneTouched
    /\ seed' = NoSeed
    /\ UNCHANGED fsVars

StartRun == \E config \in LlmConfigs, un \in BOOLEAN : StartRunWith(config, un)

\* main, 2.: the input folder is created when absent, and an empty folder
\* ends the run.
Enumerate ==
    /\ pc = "enumerate"
    /\ IF ~inputDir
       THEN \E ok \in BOOLEAN :
              /\ inputDir' = ok
              /\ pc' = "done"
              /\ exit' = IF ok THEN Exit("ok", "enumerate") ELSE Exit("error", "enumerate")
       ELSE /\ inputDir' = inputDir
            /\ IF Len(files) = 0
               THEN pc' = "done" /\ exit' = Exit("ok", "enumerate")
               ELSE pc' = "scan" /\ exit' = exit
    /\ UNCHANGED << files, glossDir, outDir, gloss, out, idx, calls >>
    /\ UNCHANGED << runVars, driverVars, localVars, snapVars >>

\* ------------------------------------------------------------ resume scan
OutputExists(o, f) == o[f.name].exists
GlossaryExists(g, f) == g[f.stem].exists

\* Mutation: a chapter counts as incomplete only when both artifacts lack.
IncompleteWhenBothLack(g, o, f) == ~OutputExists(o, f) /\ ~GlossaryExists(g, f)

\* main, 3.: `if !output_exists || !glossary_exists`
Incomplete(g, o, f) == ~OutputExists(o, f) \/ ~GlossaryExists(g, f)

RECURSIVE ScanLoopNoSentinel(_, _, _, _, _)
\* Mutation: the loop without `if i == files.len() - 1`.
ScanLoopNoSentinel(fs, g, o, i, suggested) ==
    IF i >= Len(fs) THEN suggested
    ELSE IF ~OutputExists(o, fs[i + 1]) \/ ~GlossaryExists(g, fs[i + 1]) THEN i
    ELSE ScanLoopNoSentinel(fs, g, o, i + 1, suggested)

RECURSIVE ScanLoop(_, _, _, _, _)
\* The for loop of the auto-detect logic, at index i with the value
\* suggested so far.
ScanLoop(fs, g, o, i, suggested) ==
    IF i >= Len(fs) THEN suggested
    ELSE IF Incomplete(g, o, fs[i + 1]) THEN i
    ELSE IF i = Len(fs) - 1 THEN ScanLoop(fs, g, o, i + 1, Len(fs))
    ELSE ScanLoop(fs, g, o, i + 1, suggested)

SuggestedIndex(fs, g, o) == ScanLoop(fs, g, o, 0, 0)

Scan ==
    /\ pc = "scan"
    /\ suggested_index' = SuggestedIndex(files, gloss, out)
    /\ pc' = "prompt"
    /\ UNCHANGED << fsVars, runVars, localVars, snapVars >>
    /\ UNCHANGED << start_index, idx, current_glossary, seed, calls, exit >>

\* ----------------------------------------------------------- start prompt
Digits == << "1", "2", "3", "4", "5", "6" >>

\* What the operator may type at the start prompt, after trim().
Inputs == {"", "x", "0"} \cup { Digits[k] : k \in 1..(MaxChapters + 1) }

\* str::parse::<usize>
ParseUsize(s) ==
    IF s = "0" THEN [ok |-> TRUE, n |-> 0]
    ELSE IF \E k \in 1..Len(Digits) : Digits[k] = s
    THEN [ok |-> TRUE, n |-> CHOOSE k \in 1..Len(Digits) : Digits[k] = s]
    ELSE [ok |-> FALSE, n |-> 0]

\* Mutation: the fallback takes the suggested index without testing it
\* against the number of chapters.
StartIndexUncheckedFallback(input, suggested, n) ==
    IF input = ""
    THEN [return |-> FALSE, index |-> suggested]
    ELSE LET p == ParseUsize(input)
         IN  IF p.ok /\ p.n > 0 /\ p.n <= n
             THEN [return |-> FALSE, index |-> p.n - 1]
             ELSE [return |-> FALSE, index |-> suggested]

\* main, 4.: the start index chosen for an input, or the return.
StartIndex(input, suggested, n) ==
    IF input = ""
    THEN IF suggested >= n
         THEN [return |-> TRUE, index |-> 0]
         ELSE [return |-> FALSE, index |-> suggested]
    ELSE LET p == ParseUsize(input)
         IN  IF p.ok /\ p.n > 0 /\ p.n <= n
             THEN [return |-> FALSE, index |-> p.n - 1]
             ELSE IF suggested >= n
                  THEN [return |-> TRUE, index |-> 0]
                  ELSE [return |-> FALSE, index |-> suggested]

\* main, 4.: the operator's answer to the start prompt is read.
PromptInput(input) ==
    /\ pc = "prompt"
    /\ LET r == StartIndex(input, suggested_index, Len(files))
       IN  IF r.return
           THEN /\ pc' = "done"
                /\ exit' = Exit("ok", "prompt")
                /\ start_index' = start_index
           ELSE /\ pc' = "seed"
                /\ exit' = exit
                /\ start_index' = r.index
    /\ UNCHANGED << fsVars, runVars, localVars, snapVars >>
    /\ UNCHANGED << suggested_index, idx, current_glossary, seed, calls >>

Prompt == \E input \in Inputs : PromptInput(input)

\* --------------------------------------------------------- glossary store
\* load_glossary: None when the file is absent, and None too when it cannot
\* be decoded (`.ok()`).
LoadGlossary(g, file_name) ==
    IF g[file_name].exists THEN Decode(g[file_name].data) ELSE None

\* `files[start_index - 1].file_stem()`
PrevFileStem == Chapter(start_index - 1).stem

\* main, 5.: the glossary of the chapter before the start index is loaded.
LoadSeed ==
    /\ pc = "seed"
    /\ IF start_index > 0
       THEN LET g == LoadGlossary(gloss, PrevFileStem)
            IN  IF g.some
                THEN /\ current_glossary' = g.val
                     /\ seed' = [from |-> "loaded", key |-> PrevFileStem]
                     /\ pc' = "loop"
                ELSE /\ current_glossary' = DefaultGlossary
                     /\ seed' = seed
                     /\ pc' = "confirm"
       ELSE /\ current_glossary' = DefaultGlossary
            /\ seed' = [from |-> "first", key |-> ""]
            /\ pc' = "loop"
    /\ idx' = start_index
    /\ UNCHANGED << fsVars, runVars, localVars, snapVars >>
    /\ UNCHANGED << suggested_index, start_index, calls, exit >>

\* str::eq_ignore_ascii_case
Lower(s) == IF s = "Y" THEN "y" ELSE IF s = "Q" THEN "q" ELSE s

\* Mutation: every answer compares equal.
EqAnything(a, b) == TRUE

EqIgnoreAsciiCase(a, b) == Lower(a) = Lower(b)

\* The answers the operator gives at the y/N prompt.
ConfirmInputs == {"y", "Y", "n", ""}

\* main, 5.: the operator confirms or refuses the blank glossary.
ConfirmInput(confirm) ==
    /\ pc = "confirm"
    /\ IF ~EqIgnoreAsciiCase(confirm, "y")
       THEN /\ pc' = "done"
            /\ exit' = Exit("ok", "confirm")
            /\ seed' = seed
       ELSE /\ pc' = "loop"
            /\ exit' = exit
            /\ seed' = [from |-> "override", key |-> ""]
    /\ UNCHANGED << fsVars, runVars, localVars, snapVars >>
    /\ UNCHANGED << suggested_index, start_index, idx, current_glossary, calls >>

Confirm == \E confirm \in ConfirmInputs : ConfirmInput(confirm)

\* ------------------------------------------------------- processing loop
\* main, 6.: `for file_path in files.iter().skip(start_index)`
Loop ==
    /\ pc = "loop"
    /\ IF idx < Len(files)
       THEN /\ pc' = "read"
            /\ exit' = exit
            /\ gloss0' = gloss
            /\ out0' = out
            /\ touched' = touched
       ELSE /\ pc' = "done"
            /\ exit' = Exit("ok", "loop")
            /\ UNCHANGED snapVars
    /\ UNCHANGED << fsVars, runVars, localVars, driverVars, idx, calls >>

\* Mutation: the loop goes on with the next chapter after an error.
ChapterErrContinue(at) ==
    /\ pc' = "loop"
    /\ exit' = Exit("failed", at)
    /\ idx' = idx + 1

\* main, 6.: `Err(e) => { ...; break; }`: the run stops at the failed chapter.
ChapterErr(at) ==
    /\ pc' = "done"
    /\ exit' = Exit("failed", at)
    /\ idx' = idx

\* process_chapter: the chapter's text is read.
ReadChapter ==
    /\ pc = "read"
    /\ \E ok \in BOOLEAN :
          IF ok THEN pc' = "pass1" /\ exit' = exit /\ idx' = idx
          ELSE ChapterErr(pc)
    /\ UNCHANGED << fsVars, runVars, localVars, driverVars, snapVars, calls >>

\* The json_mode argument of the analysis call: `llm.generate(.., false)`.
AnalysisJsonMode == FALSE
\* The json_mode argument of the translation call.
TranslationJsonMode == FALSE

Call(i, pass, json_mode) == [idx |-> i, pass |-> pass, json_mode |-> json_mode]

\* process_chapter, Pass 1: the analysis call; the backend answers or fails.
Pass1 ==
    /\ pc = "pass1"
    /\ calls' = Append(calls, Call(idx, 1, AnalysisJsonMode))
    /\ \/ \E r \in AnalysisResponses :
             /\ raw_resp' = r
             /\ pc' = "parse" /\ exit' = exit /\ idx' = idx
       \/ /\ raw_resp' = raw_resp
          /\ ChapterErr(pc)
    /\ UNCHANGED << fsVars, runVars, driverVars, snapVars >>
    /\ UNCHANGED << current_chapter_data, wbuf, translated_text >>

\* Mutation: the translation call is made before the snapshot is saved.
AfterMergeTranslateFirst == "pass2"

\* process_chapter: where the chapter goes once the snapshot is built: the
\* snapshot is saved before Pass 2.
AfterMerge == "save_dir"

\* process_chapter: the response is cleaned and parsed, the new entries are
\* merged into the previous terms and the chapter's snapshot is built.
Parse ==
    /\ pc = "parse"
    /\ LET analysis == ParseAnalysis(CleanJson(raw_resp))
       IN  IF analysis.ok
           THEN /\ current_chapter_data' =
                       ChapterGlossary(Chapter(idx).stem, analysis.summary,
                                       MergeTerms(current_glossary.terms, analysis.new_glossary))
                /\ pc' = AfterMerge /\ exit' = exit /\ idx' = idx
           ELSE /\ current_chapter_data' = current_chapter_data
                /\ ChapterErr(pc)
    /\ UNCHANGED << fsVars, runVars, driverVars, snapVars, calls >>
    /\ UNCHANGED << raw_resp, wbuf, translated_text >>

\* save_glossary: the folder is created when absent.
SaveDir ==
    /\ pc = "save_dir"
    /\ IF glossDir
       THEN /\ glossDir' = glossDir
            /\ pc' = "save_create" /\ exit' = exit /\ idx' = idx
       ELSE \E ok \in BOOLEAN :
              /\ glossDir' = ok
              /\ IF ok THEN pc' = "save_create" /\ exit' = exit /\ idx' = idx
                 ELSE ChapterErr(pc)
    /\ UNCHANGED << files, inputDir, outDir, gloss, out >>
    /\ UNCHANGED << runVars, localVars, driverVars, snapVars, calls >>

\* Mutation: an existing file is opened without being truncated.
FileCreateNoTruncate(f) == IF f.exists THEN f ELSE File(<< >>)

\* File::create: the file is created, or truncated when it exists.
FileCreate(f) == File(<< >>)

\* save_glossary: `fs_err::File::create(path)?`; the serializer then has the
\* whole snapshot to write.
SaveCreate ==
    /\ pc = "save_create"
    /\ \/ /\ gloss' = [gloss EXCEPT ![Chapter(idx).stem] = FileCreate(@)]
          /\ touched' = [touched EXCEPT !.gloss = @ \cup {Chapter(idx).stem}]
          /\ wbuf' = Encode(current_chapter_data, IterOrder(DOMAIN current_chapter_data.terms))
          /\ pc' = "save_write" /\ exit' = exit /\ idx' = idx
       \/ /\ UNCHANGED << gloss, wbuf, touched >>
          /\ ChapterErr(pc)
    /\ UNCHANGED << files, inputDir, glossDir, outDir, out >>
    /\ UNCHANGED << runVars, driverVars, gloss0, out0, calls >>
    /\ UNCHANGED << raw_resp, current_chapter_data, translated_text >>

\* The serializer writes to the unbuffered file in several writes; they are
\* taken as two, the text before the closing brace and the closing brace.
NextWrite(buf) == IF Len(buf) > 1 THEN Len(buf) - 1 ELSE 1

\* save_glossary: `serde_json::to_writer_pretty(file, data)?` writes the
\* snapshot to the file piece by piece; a write may fail.
SaveWrite ==
    /\ pc = "save_write"
    /\ \/ /\ Len(wbuf) > 0
          /\ gloss' = [gloss EXCEPT ![Chapter(idx).stem] =
                                       File(@.data \o SubSeq(wbuf, 1, NextWrite(wbuf)))]
          /\ wbuf' = SubSeq(wbuf, NextWrite(wbuf) + 1, Len(wbuf))
          /\ pc' = pc /\ exit' = exit /\ idx' = idx
       \/ /\ Len(wbuf) > 0
          /\ UNCHANGED << gloss, wbuf >>
          /\ ChapterErr(pc)
       \/ /\ Len(wbuf) = 0
          /\ UNCHANGED << gloss, wbuf >>
          /\ pc' = "pass2" /\ exit' = exit /\ idx' = idx
    /\ UNCHANGED << files, inputDir, glossDir, outDir, out >>
    /\ UNCHANGED << runVars, driverVars, snapVars, calls >>
    /\ UNCHANGED << raw_resp, current_chapter_data, translated_text >>

\* process_chapter, Pass 2: the translation call; the answer is unescaped.
Pass2 ==
    /\ pc = "pass2"
    /\ calls' = Append(calls, Call(idx, 2, TranslationJsonMode))
    /\ \/ \E t \in TranslationResponses :
             /\ translated_text' = Unescape(t)
             /\ pc' = "out_dir" /\ exit' = exit /\ idx' = idx
       \/ /\ translated_text' = translated_text
          /\ ChapterErr(pc)
    /\ UNCHANGED << fsVars, runVars, driverVars, snapVars >>
    /\ UNCHANGED << raw_resp, current_chapter_data, wbuf >>

\* process_chapter: the output folder is created when absent.
OutDir ==
    /\ pc = "out_dir"
    /\ IF outDir
       THEN /\ outDir' = outDir
            /\ pc' = "out_create" /\ exit' = exit /\ idx' = idx
       ELSE \E ok \in BOOLEAN :
              /\ outDir' = ok
              /\ IF ok THEN pc' = "out_create" /\ exit' = exit /\ idx' = idx
                 ELSE ChapterErr(pc)
    /\ UNCHANGED << files, inputDir, glossDir, gloss, out >>
    /\ UNCHANGED << runVars, localVars, driverVars, snapVars, calls >>

\* fs_err::write, first half: File::create of the output file.
OutCreate ==
    /\ pc = "out_create"
    /\ \/ /\ out' = [out EXCEPT ![Chapter(idx).name] = FileCreate(@)]
          /\ touched' = [touched EXCEPT !.out = @ \cup {Chapter(idx).name}]
          /\ pc' = "out_write" /\ exit' = exit /\ idx' = idx
       \/ /\ UNCHANGED << out, touched >>
          /\ ChapterErr(pc)
    /\ UNCHANGED << files, inputDir, glossDir, outDir, gloss >>
    /\ UNCHANGED << runVars, localVars, driverVars, gloss0, out0, calls >>

\* fs_err::write, second half: write_all of the translated text.
OutWrite ==
    /\ pc = "out_write"
    /\ \/ /\ out' = [out EXCEPT ![Chapter(idx).name] = File(translated_text)]
          /\ pc' = "chapter_ok" /\ exit' = exit /\ idx' = idx
       \/ /\ out' = out
          /\ ChapterErr(pc)
    /\ UNCHANGED << files, inputDir, glossDir, outDir, gloss >>
    /\ UNCHANGED << runVars, localVars, driverVars, snapVars, calls >>

\* Mutation: the glossary the chapter returned is not taken over.
ChapterOkKeepGlossary ==
    /\ pc = "chapter_ok"
    /\ current_glossary' = current_glossary
    /\ IF unattended
       THEN pc' = "loop" /\ idx' = idx + 1
       ELSE pc' = "pause" /\ idx' = idx
    /\ UNCHANGED << fsVars, runVars, localVars, snapVars >>
    /\ UNCHANGED << suggested_index, start_index, seed, calls, exit >>

\* main, 6.: `Ok(new_glossary) => current_glossary = new_glossary`, then the
\* pause of the attended mode.
ChapterOk ==
    /\ pc = "chapter_ok"
    /\ current_glossary' = current_chapter_data
    /\ IF unattended
       THEN pc' = "loop" /\ idx' = idx + 1
       ELSE pc' = "pause" /\ idx' = idx
    /\ UNCHANGED << fsVars, runVars, localVars, snapVars >>
    /\ UNCHANGED << suggested_index, start_index, seed, calls, exit >>

\* main, 6.: Enter continues with the next chapter, 'q' stops the run.
Pause ==
    /\ pc = "pause"
    /\ \E buf \in {"", "q", "Q"} :
          IF EqIgnoreAsciiCase(buf, "q")
          THEN pc' = "done" /\ exit' = Exit("ok", "pause") /\ idx' = idx
          ELSE pc' = "loop" /\ exit' = exit /\ idx' = idx + 1
    /\ UNCHANGED << fsVars, runVars, localVars, driverVars, snapVars, calls >>

\* The process is killed, or the machine stops, while a chapter is processed.
ChapterPcs ==
    { "read", "pass1", "parse", "save_dir", "save_create", "save_write", "pass2",
      "out_dir", "out_create", "out_write", "chapter_ok", "pause" }

Die ==
    /\ pc \in ChapterPcs
    /\ pc' = "done"
    /\ exit' = Exit("died", pc)
    /\ UNCHANGED << fsVars, runVars, localVars, driverVars, snapVars, idx, calls >>

Next ==
    \/ StartRun
    \/ Enumerate
    \/ Scan
    \/ Prompt
    \/ LoadSeed
    \/ Confirm
    \/ Loop
    \/ ReadChapter
    \/ Pass1
    \/ Parse
    \/ SaveDir
    \/ SaveCreate
    \/ SaveWrite
    \/ Pass2
    \/ OutDir
    \/ OutCreate
    \/ OutWrite
    \/ ChapterOk
    \/ Pause
    \/ Die

Spec == Init /\ [][Next]_vars

\* ================================================================ claims
\* The chapter at index i lacks its output artifact or its glossary snapshot.
Lacks(i) == ~out[Chapter(i).name].exists \/ ~gloss[Chapter(i).stem].exists
HasBoth(i) == out[Chapter(i).name].exists /\ gloss[Chapter(i).stem].exists
HasNeither(i) == ~out[Chapter(i).name].exists /\ ~gloss[Chapter(i).stem].exists

\* The index of the first chapter, in list order, that lacks an artifact, or
\* the length of the list when no chapter lacks one.
FirstIncomplete ==
    IF \E i \in 0..(Len(files) - 1) : Lacks(i)
    THEN CHOOSE i \in 0..(Len(files) - 1) :
            Lacks(i) /\ \A j \in 0..(i - 1) : ~Lacks(j)
    ELSE Len(files)

\* The scan has run and the folders are as it saw them.
Scanned == pc \in {"prompt", "seed", "confirm"}

\* C1: the suggested resume index computed by the scan is the index of the
\* first chapter that lacks its output or its glossary snapshot; when the
\* chapters [0..k) have both artifacts and chapter k has neither, it is k,
\* whatever the state of the chapters after k.
C1_ResumeIndex ==
    Scanned =>
        /\ suggested_index = FirstIncomplete
        /\ \A k \in 0..(Len(files) - 1) :
              ((\A j \in 0..(k - 1) : HasBoth(j)) /\ HasNeither(k)) => suggested_index = k

\* Chapter 0 is complete, chapter 1 has neither artifact, a chapter follows.
C1_Witness ==
    /\ pc = "prompt"
    /\ Len(files) = 3
    /\ HasBoth(0) /\ HasNeither(1)
    /\ suggested_index = 1

AllComplete == Len(files) > 0 /\ \A i \in 0..(Len(files) - 1) : HasBoth(i)

\* C2: when every chapter of a non-empty list has both artifacts the
\* suggested index is the length of the list, and the step that accepts the
\* suggestion (empty input) ends the run; a run ended at the prompt has
\* called no backend and has left both folders as they were at its start.
C2_AllCompleteSentinel ==
    /\ [](Scanned /\ AllComplete => suggested_index = Len(files))
    /\ [][(AllComplete /\ PromptInput("")) => pc' = "done"]_vars
    /\ []((pc = "done" /\ exit = Exit("ok", "prompt")) =>
            (calls = << >> /\ gloss = gloss0 /\ out = out0))

\* A run over a complete list of chapters has ended at the prompt.
C2_Witness ==
    /\ pc = "done"
    /\ exit = Exit("ok", "prompt")
    /\ AllComplete
    /\ Len(files) >= 2
    /\ suggested_index = Len(files)

\* ---------------------------------------------------------------- C3
\* Pass 2 of the chapter at idx has failed after Pass 1 succeeded.
Pass2Failed ==
    /\ pc = "done"
    /\ exit.kind = "failed"
    /\ exit.at \in {"pass2", "out_dir", "out_create", "out_write"}

\* C3: when Pass 2 (the translation call or the output write) fails for
\* chapter i after Pass 1 succeeded, at the halt the snapshot Pass 1 wrote for
\* chapter i exists and is loadable and the output artifact of chapter i does
\* not exist.
C3_DurabilityOrdering ==
    Pass2Failed =>
        /\ LoadGlossary(gloss, Chapter(idx).stem) = Some(current_chapter_data)
        /\ ~out[Chapter(idx).name].exists

\* ---------------------------------------------------------------- C4
\* C4: a run that starts at index i > 0 passes to chapter i the snapshot of
\* chapter i-1, or the empty glossary after the override, and never chapter
\* i's own snapshot.
C4_SeedIndependence ==
    (pc = "loop" /\ idx = start_index /\ start_index > 0) =>
        \/ seed.from = "override" /\ current_glossary = DefaultGlossary
        \/ /\ seed.from = "loaded"
           /\ Some(current_glossary) = LoadGlossary(gloss, Chapter(start_index - 1).stem)
           /\ seed.key # Chapter(start_index).stem

\* ---------------------------------------------------------------- C5
\* Pass 1 has built the snapshot of the chapter at idx from current_glossary
\* and the parsed response.
Merged ==
    pc \in {"save_dir", "save_create", "save_write", "pass2", "out_dir", "out_create", "out_write"}

\* C5: the terms of the snapshot built by Pass 1 hold every key of the prior
\* glossary G that the analysis result R does not hold, with G's value, and
\* every key of R with R's value.
C5_MonotonicMerge ==
    Merged =>
        LET G == current_glossary.terms
            R == ParseAnalysis(CleanJson(raw_resp)).new_glossary
            T == current_chapter_data.terms
        IN  /\ \A k \in (DOMAIN G) \ (DOMAIN R) : k \in DOMAIN T /\ T[k] = G[k]
            /\ \A k \in DOMAIN R : k \in DOMAIN T /\ T[k] = R[k]

\* G holds a key R lacks and a key R gives another value.
C5_Witness ==
    /\ Merged
    /\ LET G == current_glossary.terms
           R == ParseAnalysis(CleanJson(raw_resp)).new_glossary
       IN  /\ \E k \in DOMAIN G : k \notin DOMAIN R
           /\ \E k \in (DOMAIN G) \cap (DOMAIN R) : G[k] # R[k]

\* ---------------------------------------------------------------- C6
\* C6: when the previous run died or failed in chapter i after Pass 1 saved
\* its snapshot and before its output was written, the scan of the next run
\* suggests an index at or before i.
C6_ResumeAfterDeath ==
    (Scanned /\ prev >= 0) => suggested_index <= prev

\* ---------------------------------------------------------------- C7
\* C7: once the processing of a chapter has failed, the run makes no further
\* backend call and writes nothing more to the glossary and output folders.
C7_HaltOnFirstFailure ==
    [][(exit.kind = "failed" /\ run' = run) =>
          (calls' = calls /\ gloss' = gloss /\ out' = out)]_vars

\* A chapter other than the last has failed after a call to the backend.
C7_Witness ==
    /\ pc = "done"
    /\ exit.kind = "failed"
    /\ exit.idx + 1 < Len(files)
    /\ Len(calls) > 0

\* ---------------------------------------------------------------- C8
\* C8: every Pass 1 analysis request is issued with json_mode = true.
C8_AnalysisJsonMode ==
    \A k \in 1..Len(calls) : calls[k].pass = 1 => calls[k].json_mode = TRUE

\* ---------------------------------------------------------------- C9
\* save_glossary is at work on the snapshot of the chapter at idx, or the run
\* ended inside it.
InSave ==
    \/ pc \in {"save_create", "save_write"}
    \/ pc = "done" /\ exit.at \in {"save_create", "save_write"}

\* C9: at every point during save(id, G), load(id) observes the prior
\* snapshot of id (none if there was none) or the new snapshot G.
C9_AtomicSave ==
    InSave =>
        LoadGlossary(gloss, Chapter(idx).stem)
            \in { LoadGlossary(gloss0, Chapter(idx).stem), Some(current_chapter_data) }

\* ---------------------------------------------------------------- C10
\* save_glossary has returned Ok for the chapter at idx and no later save has
\* begun.
Saved ==
    \/ pc \in {"pass2", "out_dir", "out_create", "out_write", "chapter_ok", "pause"}
    \/ pc = "done" /\ exit.at \in {"pass2", "out_dir", "out_create", "out_write", "chapter_ok", "pause"}

\* C10: after a successful save(id, G), load(id) yields G: the same chapter
\* name, summary and terms, also when another snapshot of id existed before.
C10_RoundTrip ==
    Saved => LoadGlossary(gloss, Chapter(idx).stem) = Some(current_chapter_data)

\* A snapshot with two terms has replaced a different, loadable one.
C10_Witness ==
    /\ pc = "pass2"
    /\ LoadGlossary(gloss0, Chapter(idx).stem).some
    /\ LoadGlossary(gloss0, Chapter(idx).stem) # Some(current_chapter_data)
    /\ Cardinality(DOMAIN current_chapter_data.terms) = 2

\* ---------------------------------------------------------------- C11
\* The keys of the terms of the snapshot load finds for a stem in folder g.
LoadedKeys(g, stem) == DOMAIN LoadGlossary(g, stem).val.terms

\* C11: in every reachable state, for two chapters i < j whose snapshots are
\* both persisted, the keys of chapter i's terms are among the keys of
\* chapter j's terms.
C11_MonotonicAcrossSequence ==
    \A i, j \in 0..(Len(files) - 1) :
        (/\ i < j
         /\ LoadGlossary(gloss, Chapter(i).stem).some
         /\ LoadGlossary(gloss, Chapter(j).stem).some)
        => LoadedKeys(gloss, Chapter(i).stem) \subseteq LoadedKeys(gloss, Chapter(j).stem)

\* C11, amended: within a run, once the snapshot of a chapter processed after
\* the first one is saved, its keys include the keys of the snapshot of the
\* chapter before it as it was persisted when the chapter's processing began.
C11_MonotonicWithinRun ==
    (Saved /\ idx > start_index) =>
        /\ LoadGlossary(gloss0, Chapter(idx - 1).stem).some
        /\ LoadedKeys(gloss0, Chapter(idx - 1).stem) \subseteq LoadedKeys(gloss, Chapter(idx).stem)

\* The second chapter of a run has saved a snapshot that adds a key to the
\* keys of the first one's, under another stem.
C11_Witness ==
    /\ pc = "pass2"
    /\ idx > start_index
    /\ Chapter(idx - 1).stem # Chapter(idx).stem
    /\ LoadedKeys(gloss0, Chapter(idx - 1).stem) = {"k1"}
    /\ LoadedKeys(gloss, Chapter(idx).stem) = {"k1", "k2"}

\* ---------------------------------------------------------------- C12
\* C12: when a run starts at an index above 0 and load finds no snapshot for
\* the chapter before it, the operator is asked; an answer other than y ends
\* the run with no backend call and no artifact written, and a run that
\* calls the backend from such a start has either loaded the seed or has the
\* operator's confirmation.
C12_DegradedNeverSilent ==
    /\ [][(pc = "seed" /\ start_index > 0 /\ ~LoadGlossary(gloss, PrevFileStem).some)
             => (pc' = "confirm" /\ calls' = << >> /\ gloss' = gloss /\ out' = out)]_vars
    /\ [][\A confirm \in {"n", ""} :
             ConfirmInput(confirm) =>
                 (/\ pc' = "done"
                  /\ exit' = Exit("ok", "confirm")
                  /\ calls' = << >> /\ gloss' = gloss0 /\ out' = out0)]_vars
    /\ [][(pc = "confirm" /\ pc' # "done") =>
             (seed'.from = "override" /\ current_glossary' = DefaultGlossary)]_vars
    /\ []((start_index > 0 /\ calls # << >>) => seed.from \in {"loaded", "override"})
    /\ []((pc = "done" /\ exit = Exit("ok", "confirm")) =>
             (calls = << >> /\ gloss = gloss0 /\ out = out0))

\* The operator has refused the blank glossary while other chapters have
\* artifacts on disk.
C12_Witness ==
    /\ pc = "done"
    /\ exit = Exit("ok", "confirm")
    /\ start_index > 0
    /\ \E s \in Stems : gloss[s].exists

\* ---------------------------------------------------------------- C13
\* C13: load returns none exactly when no snapshot exists for the chapter: a
\* snapshot that exists and cannot be decoded is an error, it is not treated
\* as absent. The blank-glossary prompt is where the driver stands when load
\* has returned none.
C13_NoneOnlyWhenAbsent ==
    pc = "confirm" => ~gloss[PrevFileStem].exists

\* ---------------------------------------------------------------- C14
\* The configuration names a provider that is not known, or names one whose
\* block is missing.
BadLlmConfig(config) ==
    \/ config.provider \notin {"gemini", "ollama"}
    \/ config.provider = "gemini" /\ ~config.gemini
    \/ config.provider = "ollama" /\ ~config.ollama

\* C14: a run whose configuration names an unknown provider, or lacks the
\* block of the named provider, ends before the chapter list is scanned: it
\* makes no backend call and no artifact is created or modified.
C14_ConfigErrorAborts ==
    /\ [][(run' # run /\ ~(pc' = "done" /\ exit'.kind = "config")) =>
             \A config \in LlmConfigs :
                 BadLlmConfig(config) => ~StartRunWith(config, unattended')]_vars
    /\ [][(run' # run /\ exit'.kind = "config") =>
             (/\ pc' = "done"
              /\ calls' = << >>
              /\ gloss' = gloss /\ out' = out
              /\ inputDir' = inputDir /\ glossDir' = glossDir /\ outDir' = outDir)]_vars
    /\ [][exit.kind = "config" => (run' # run \/ UNCHANGED << fsVars, calls, suggested_index >>)]_vars
    /\ [](exit.kind = "config" =>
             (pc = "done" /\ calls = << >> /\ gloss = gloss0 /\ out = out0))

\* A second run has ended on the configuration error over folders that hold
\* artifacts of the first.
C14_Witness ==
    /\ pc = "done"
    /\ exit.kind = "config"
    /\ run = 2
    /\ \E s \in Stems : gloss[s].exists
    /\ \E n \in Names : out[n].exists

\* ---------------------------------------------------------------- C15
\* The last call of the run is the call of the given pass for the chapter
\* being processed.
LastCallIs(pass) ==
    /\ Len(calls) > 0
    /\ calls[Len(calls)].idx = idx
    /\ calls[Len(calls)].pass = pass

\* The snapshot built for the chapter being processed is the one on disk.
SnapshotPersisted ==
    LoadGlossary(gloss, Chapter(idx).stem) = Some(current_chapter_data)

\* C15: within one chapter the steps are the analysis call, the save of the
\* snapshot, the translation call and the write of the output, in this
\* order: the snapshot is written only after the analysis call has answered,
\* the translation call is issued only once the snapshot is persisted, and
\* the output is written only after both calls have answered.
C15_StepOrder ==
    /\ [][(run' = run /\ gloss' # gloss) =>
             (LastCallIs(1) /\ pc \in {"save_create", "save_write"})]_vars
    /\ [][(run' = run /\ calls' # calls) =>
             \/ /\ pc = "pass1"
                /\ calls' = Append(calls, calls'[Len(calls')])
                /\ calls'[Len(calls')].pass = 1
                /\ \A k \in 1..Len(calls) : calls[k].idx < idx
             \/ /\ pc = "pass2"
                /\ calls' = Append(calls, calls'[Len(calls')])
                /\ calls'[Len(calls')].pass = 2
                /\ LastCallIs(1)
                /\ SnapshotPersisted]_vars
    /\ [][(run' = run /\ out' # out) =>
             (/\ LastCallIs(2)
              /\ Len(calls) > 1
              /\ calls[Len(calls) - 1].idx = idx
              /\ calls[Len(calls) - 1].pass = 1
              /\ SnapshotPersisted
              /\ pc \in {"out_create", "out_write"})]_vars

\* A chapter has gone through the four steps: both calls are made, the
\* snapshot is on disk and the output holds the translated text.
C15_Witness ==
    /\ pc = "chapter_ok"
    /\ LastCallIs(2)
    /\ SnapshotPersisted
    /\ out[Chapter(idx).name] = File(translated_text)

\* ---------------------------------------------------------------- C16
\* The run has stopped because Pass 1 failed for the chapter at idx: the
\* backend call returned an error, or its sanitized response did not parse.
Pass1Failed ==
    /\ pc = "done"
    /\ exit.kind = "failed"
    /\ exit.at \in {"pass1", "parse"}

\* C16: when Pass 1 fails for a chapter, this run has written no snapshot and
\* no output at the chapter's locations, has made no translation call for
\* it, and the snapshot and the output the chapter had before the run are
\* unchanged.
C16_Pass1FailureWritesNothing ==
    Pass1Failed =>
        /\ Chapter(idx).stem \notin touched.gloss
        /\ Chapter(idx).name \notin touched.out
        /\ \A k \in 1..Len(calls) : ~(calls[k].idx = idx /\ calls[k].pass = 2)
        /\ gloss[Chapter(idx).stem] = gloss0[Chapter(idx).stem]
        /\ out[Chapter(idx).name] = out0[Chapter(idx).name]

\* ---------------------------------------------------------------- C17
\* process_chapter is running for the chapter at idx.
InProcessChapter == pc \in ChapterPcs \ {"chapter_ok", "pause"}

\* C17: within one run the chapters are processed in strictly increasing
\* index order with no gaps from the start index, and every chapter after
\* the first one processed gets as prior glossary the snapshot this run
\* persisted for the chapter before it.
C17_OrderAndChainedSeed ==
    /\ calls # << >> => (calls[1].idx = start_index /\ calls[1].pass = 1)
    /\ \A k \in 1..(Len(calls) - 1) :
          \/ /\ calls[k].pass = 1 /\ calls[k + 1].pass = 2
             /\ calls[k + 1].idx = calls[k].idx
          \/ /\ calls[k].pass = 2 /\ calls[k + 1].pass = 1
             /\ calls[k + 1].idx = calls[k].idx + 1
    /\ InProcessChapter =>
          /\ start_index <= idx /\ idx < Len(files)
          /\ \A k \in 1..Len(calls) : calls[k].idx <= idx
          /\ idx > start_index =>
                /\ calls # << >>
                /\ calls[Len(calls)].idx \in {idx - 1, idx}
                /\ Some(current_glossary) = LoadGlossary(gloss0, Chapter(idx - 1).stem)

\* The third chapter of a run that started at the second is in Pass 1 with
\* the glossary the run saved for the second.
C17_Witness ==
    /\ pc = "parse"
    /\ start_index = 1
    /\ idx = 2
    /\ Len(calls) = 3
    /\ current_glossary.terms # EmptyTerms

\* ---------------------------------------------------------------- C18
\* C18: while chapter idx is processed, the snapshot and the output of every
\* other chapter of the list are as they were when the processing began, and
\* no artifact that existed then has ceased to exist.
C18_FrameOfProcessChapter ==
    pc \in ChapterPcs =>
        /\ \A j \in 0..(Len(files) - 1) :
              j # idx =>
                 /\ gloss[Chapter(j).stem] = gloss0[Chapter(j).stem]
                 /\ out[Chapter(j).name] = out0[Chapter(j).name]
        /\ \A s \in Stems : gloss0[s].exists => gloss[s].exists
        /\ \A n \in Names : out0[n].exists => out[n].exists

\* ---------------------------------------------------------------- C19
\* C19: every chapter the scan counts as complete has a snapshot that load
\* returns, so a run that starts at the suggested index above 0 finds its
\* seed and never stands at the blank-glossary prompt.
C19_SuggestedStartHasSeed ==
    /\ Scanned =>
          \A i \in 0..(suggested_index - 1) : LoadGlossary(gloss, Chapter(i).stem).some
    /\ pc = "confirm" => start_index # suggested_index

\* ---------------------------------------------------------------- C20
\* The start index is chosen and the run goes on.
Started == pc \in ({"seed", "confirm", "loop"} \cup ChapterPcs)

\* The positions of a run, in the order in which a run goes through them
\* for one chapter, the last ones first.
PcOrder ==
    << "done", "pause", "chapter_ok", "out_write", "out_create", "out_dir", "pass2",
       "save_write", "save_create", "save_dir", "parse", "pass1", "read", "loop",
       "confirm", "seed", "prompt", "scan", "enumerate", "idle" >>

PcRank(p) == CHOOSE k \in 1..Len(PcOrder) : PcOrder[k] = p

\* What is left of the run: the chapters left, the position within the
\* chapter, the pieces of the snapshot left to write.
Measure(i, p, buf) == << Len(files) - i, PcRank(p), Len(buf) >>

LexLess(a, b) ==
    \/ a[1] < b[1]
    \/ a[1] = b[1] /\ a[2] < b[2]
    \/ a[1] = b[1] /\ a[2] = b[2] /\ a[3] < b[3]

\* C20: for every input at the start prompt the start index is in [0, n): a
\* number k with 1 <= k <= n starts at k - 1, every other input falls back to
\* the suggested index, and when that is the sentinel n the run ends without
\* processing anything. The run then processes at most n - start chapters:
\* its index stays within the list, it makes at most two calls per chapter
\* from the start index on, and every step of the run brings it nearer to
\* its end.
C20_StartIndexInRange ==
    /\ [](Started => (0 <= start_index /\ start_index < Len(files)))
    /\ [][pc = "prompt" => \A k \in 1..(MaxChapters + 1) :
             (k <= Len(files) /\ PromptInput(Digits[k])) =>
                 (pc' = "seed" /\ start_index' = k - 1)]_vars
    /\ [][pc = "prompt" => \A input \in Inputs :
             ((input \notin { Digits[k] : k \in 1..Len(files) }) /\ PromptInput(input)) =>
                 IF suggested_index < Len(files)
                 THEN pc' = "seed" /\ start_index' = suggested_index
                 ELSE /\ pc' = "done"
                      /\ calls' = << >> /\ gloss' = gloss /\ out' = out]_vars
    /\ []((Started /\ pc # "seed") =>
             /\ start_index <= idx /\ idx <= Len(files)
             /\ Len(calls) <= 2 * (Len(files) - start_index))
    /\ [][run' = run =>
             /\ Len(files) - idx' >= 0
             /\ LexLess(Measure(idx', pc', wbuf'), Measure(idx, pc, wbuf))]_vars

\* A run started at the suggested index, above 0, has processed every
\* chapter from there on and is at the end of the list.
C20_Witness ==
    /\ pc = "loop"
    /\ idx = Len(files)
    /\ start_index = suggested_index
    /\ start_index > 0
    /\ Len(calls) = 2 * (Len(files) - start_index)

====
